---- MODULE Spec2Model ----
(***************************************************************************)
(* Model of the CAPTCHA text-recovery core of the scraper:                 *)
(*   - _solve_captcha (amazon_scraper.py), the bounded solve/retry loop;   *)
(*   - ImageTextExtractor._recognize_with_rotations (OCR.py), the          *)
(*     rotation search with confidence arbitration.                        *)
(* Strings are modelled as sequences of one-character strings.             *)
(***************************************************************************)
EXTENDS Integers, Sequences, FiniteSets, TLC

(***************************************************************************)
(* Bounds of the model.                                                    *)
(***************************************************************************)
MaxAttemptsBound == 3
MaxTextLen == 2
MaxPairs == 2
MaxImgH == 2
MaxImgW == 3
MaxRuns == 5
MaxParts == 4
MaxPixelRuns == 3

(***************************************************************************)
(* State of one _solve_captcha call.                                       *)
(*   max_attempts   the parameter of the call                              *)
(*   attempt        the loop variable of `for attempt in range(1, N+1)`    *)
(*   pc             position of the call in its body                       *)
(*   result         "running" | "True" | "False": the value returned       *)
(*   raised         TRUE iff an exception left the call                    *)
(*   extracted      the value extract_text() returned in this attempt      *)
(*   captcha_text   the local captcha_text (alphanumeric filter applied)   *)
(*   typed          <<s>> once send_keys(s) was called in this attempt     *)
(*   trace          the browser/recognizer calls made in this attempt      *)
(*   obs            what the last call made by the controller answered     *)
(*   nDetect        number of Detecting steps started by the call          *)
(*   everAbsent     the image or the text-input field was once not found   *)
(* State of one _recognize_with_rotations call.                            *)
(*   r_pc           "idle" | "angles" | "done"                             *)
(*   ang_idx        number of angles already tried                         *)
(*   best_char, best_conf   the locals of the same names                   *)
(*   accepted       per tried angle, the pair the scan stopped at          *)
(*   r_result       the value returned                                     *)
(*   r_image        the parameter image: a picture and the angle it has    *)
(*                  been turned by since the call started                  *)
(*   r_rot          the local rot, the picture last handed to the engine   *)
(*   r_calls        the engine invocations of the call: angle and argument *)
(* State of the scan of one angle's pairs (lines 88-99 of OCR.py).         *)
(*   sc_pc          "idle" | "ready" | "scanned"                           *)
(*   sc_data        the pairs the engine returned for the angle            *)
(*   sc_prior       <<best_char, best_conf>> before the scan               *)
(*   sc_out         <<best_char, best_conf>> after the scan                *)
(* State of _trim_whitespace applied twice in a row.                       *)
(*   t_pc           "idle" | "ready" | "once" | "twice"                    *)
(*   t_img          the image given to the first call                      *)
(*   t_out, t_out2  the images returned by the first and the second call   *)
(* State of the column scan of _segment_letters_by_projection.             *)
(*   g_pc           "idle" | "ready" | "done"                              *)
(*   g_vsum         the ink count of each column (vsum)                    *)
(*   g_boxes        the (start, end) column pairs of the emitted parts     *)
(* State of the assembling expression of extract_text (line 30).           *)
(*   a_pc           "idle" | "ready" | "done"                              *)
(*   a_parts        the list extracted_text                                *)
(*   a_out          the string returned                                    *)
(* State of one extract_text call.                                         *)
(*   e_pc           "idle" | "exists" | "open" | "segment" | "loop" |      *)
(*                  "recognizing" | "done"                                 *)
(*   e_file         what image_path holds: "missing", "unreadable", "image"*)
(*   e_stored       the pixels stored in the file when it is an image      *)
(*   e_image        the local image (opened and trimmed)                   *)
(*   e_parts        the local parts                                        *)
(*   e_idx          number of parts already handed to the recognizer       *)
(*   extracted_text the local list of the same name                        *)
(*   e_result       the string returned                                    *)
(*   e_raised       TRUE iff an exception left the call                    *)
(*   e_fault        "none", or the step in which an exception was raised   *)
(*   e_trace        the steps the call has made                            *)
(*   e_calls        the recognizer invocations: enumerate index and part   *)
(* State of two _solve_captcha calls running side by side in one working   *)
(* directory, each with its own browser (per session s).                   *)
(*   ss_pc[s]       position of the call of session s                      *)
(*   ss_attempt[s]  its loop variable attempt                              *)
(*   ss_result[s]   "running" | "True" | "False"                           *)
(*   ss_read[s]     the picture its extract_text() opened in this attempt  *)
(*   ss_typed[s]    the picture whose text it typed in this attempt        *)
(*   files          the directory captchas/: path -> picture stored        *)
(* State of one ProxyManager.                                              *)
(*   proxies, available_proxies, used_proxies, current_proxy,              *)
(*   current_proxy_start_time      the attributes of the same names        *)
(*   now            the clock read by time.time()                          *)
(*   px_op          the last method called                                 *)
(*   px_ret         the value it returned                                  *)
(*   px_avail       available_proxies when that call started               *)
(*   px_used        used_proxies just before that call chose a proxy       *)
(*   px_reset       TRUE iff that call ran reset_proxy_rotation            *)
(***************************************************************************)
VARIABLES max_attempts, attempt, pc, result, raised, extracted, captcha_text,
          typed, trace, obs, nDetect, everAbsent,
          r_pc, ang_idx, best_char, best_conf, accepted, r_result,
          r_image, r_rot, r_calls,
          sc_pc, sc_data, sc_prior, sc_out,
          t_pc, t_img, t_out, t_out2,
          g_pc, g_vsum, g_boxes,
          a_pc, a_parts, a_out,
          e_pc, e_file, e_stored, e_image, e_parts, e_idx, extracted_text,
          e_result, e_raised, e_fault, e_trace, e_calls,
          ss_pc, ss_attempt, ss_result, ss_read, ss_typed, files,
          proxies, available_proxies, used_proxies, current_proxy,
          current_proxy_start_time, now, px_op, px_ret, px_avail, px_used,
          px_reset

solverVars == <<max_attempts, attempt, pc, result, raised, extracted,
                captcha_text, typed, trace, obs, nDetect, everAbsent>>
recogVars == <<r_pc, ang_idx, best_char, best_conf, accepted, r_result,
               r_image, r_rot, r_calls>>
scanVars == <<sc_pc, sc_data, sc_prior, sc_out>>
trimVars == <<t_pc, t_img, t_out, t_out2>>
segVars == <<g_pc, g_vsum, g_boxes>>
asmVars == <<a_pc, a_parts, a_out>>
extractVars == <<e_pc, e_file, e_stored, e_image, e_parts, e_idx,
                 extracted_text, e_result, e_raised, e_fault, e_trace,
                 e_calls>>
sessVars == <<ss_pc, ss_attempt, ss_result, ss_read, ss_typed, files>>
proxyVars == <<proxies, available_proxies, used_proxies, current_proxy,
               current_proxy_start_time, now, px_op, px_ret, px_avail,
               px_used, px_reset>>
vars == <<solverVars, recogVars, scanVars, trimVars, segVars, asmVars,
          extractVars, sessVars, proxyVars>>

\* what the actions of one component leave alone
nonSolverVars == <<recogVars, scanVars, trimVars, segVars, asmVars,
                   extractVars, sessVars, proxyVars>>
nonRecogVars == <<solverVars, scanVars, trimVars, segVars, asmVars,
                  extractVars, sessVars, proxyVars>>
nonScanVars == <<solverVars, recogVars, trimVars, segVars, asmVars,
                 extractVars, sessVars, proxyVars>>
nonTrimVars == <<solverVars, recogVars, scanVars, segVars, asmVars,
                 extractVars, sessVars, proxyVars>>
nonSegVars == <<solverVars, recogVars, scanVars, trimVars, asmVars,
                extractVars, sessVars, proxyVars>>
nonAsmVars == <<solverVars, recogVars, scanVars, trimVars, segVars,
                extractVars, sessVars, proxyVars>>
nonExtractVars == <<solverVars, recogVars, scanVars, trimVars, segVars,
                    asmVars, sessVars, proxyVars>>
nonSessVars == <<solverVars, recogVars, scanVars, trimVars, segVars, asmVars,
                 extractVars, proxyVars>>
nonProxyVars == <<solverVars, recogVars, scanVars, trimVars, segVars, asmVars,
                  extractVars, sessVars>>

SeqsUpTo(S, n) == UNION {[1..k -> S] : k \in 0..n}

Count(e, s) == Cardinality({i \in DOMAIN s : s[i] = e})

(***************************************************************************)
(* Text handling of _solve_captcha.                                        *)
(***************************************************************************)
Chars == {"A", "7", "-"}

isalnum(ch) == ch \in {"A", "7"}

ExtractedTexts == SeqsUpTo(Chars, MaxTextLen)

\* ''.join(char for char in extractor.extract_text() if char.isalnum())
FilterAlnum(s) == SelectSeq(s, isalnum)

FaultObs == {"fault", "findfault", "clickfault", "nofield", "clearfault",
             "typefault", "nobutton"}

(***************************************************************************)
(* _solve_captcha                                                          *)
(***************************************************************************)
SolverInit ==
    /\ max_attempts \in 0..MaxAttemptsBound
    /\ attempt = 0
    /\ pc = "loop"
    /\ result = "running"
    /\ raised = FALSE
    /\ extracted = <<>>
    /\ captcha_text = <<>>
    /\ typed = <<>>
    /\ trace = <<>>
    /\ obs = "none"
    /\ nDetect = 0
    /\ everAbsent = FALSE

SolverIdle ==
    /\ max_attempts = 0
    /\ attempt = 0
    /\ pc = "idle"
    /\ result = "running"
    /\ raised = FALSE
    /\ extracted = <<>>
    /\ captcha_text = <<>>
    /\ typed = <<>>
    /\ trace = <<>>
    /\ obs = "none"
    /\ nDetect = 0
    /\ everAbsent = FALSE

HasNextAttempt_Inclusive == attempt <= max_attempts

\* range(1, max_attempts + 1) still has a value after `attempt`
HasNextAttempt == attempt < max_attempts

\* The loop head: next value of `attempt`, or the `return False` after the loop.
LoopHead ==
    /\ pc = "loop"
    /\ IF HasNextAttempt
         THEN /\ attempt' = attempt + 1
              /\ pc' = "Detecting"
              /\ trace' = <<>>
              /\ typed' = <<>>
              /\ obs' = "none"
              /\ UNCHANGED result
         ELSE /\ pc' = "done"
              /\ result' = "False"
              /\ UNCHANGED <<attempt, trace, typed, obs>>
    /\ UNCHANGED <<max_attempts, raised, extracted, captcha_text, nDetect,
                   everAbsent, nonSolverVars>>

HandleException_Reraise ==
    IF attempt >= max_attempts
      THEN pc' = "done" /\ raised' = TRUE /\ UNCHANGED result
      ELSE pc' = "loop" /\ UNCHANGED <<result, raised>>

HandleException_ReturnsEarly ==
    pc' = "done" /\ result' = "False" /\ UNCHANGED raised

HandleException_ReturnsTrue ==
    IF attempt >= max_attempts
      THEN pc' = "done" /\ result' = "True" /\ UNCHANGED raised
      ELSE pc' = "loop" /\ UNCHANGED <<result, raised>>

\* except Exception as e: ... if attempt >= max_attempts: return False
HandleException ==
    IF attempt >= max_attempts
      THEN pc' = "done" /\ result' = "False" /\ UNCHANGED raised
      ELSE pc' = "loop" /\ UNCHANGED <<result, raised>>

Detecting_TimeoutIsFault ==
    /\ pc = "Detecting"
    /\ nDetect' = nDetect + 1
    /\ trace' = Append(trace, "detect")
    /\ \E o \in {"found", "timeout", "fault"} :
         /\ obs' = o
         /\ CASE o = "found" ->
                   pc' = "Screenshot" /\ UNCHANGED <<result, raised, everAbsent>>
              [] o = "timeout" ->
                   HandleException /\ everAbsent' = TRUE
              [] o = "fault" ->
                   HandleException /\ UNCHANGED everAbsent
    /\ UNCHANGED <<max_attempts, attempt, extracted, captcha_text, typed,
                   nonSolverVars>>

\* wait.until(presence_of_element_located(img)); TimeoutException => return True
Detecting ==
    /\ pc = "Detecting"
    /\ nDetect' = nDetect + 1
    /\ trace' = Append(trace, "detect")
    /\ \E o \in {"found", "timeout", "fault"} :
         /\ obs' = o
         /\ CASE o = "found" ->
                   pc' = "Screenshot" /\ UNCHANGED <<result, raised, everAbsent>>
              [] o = "timeout" ->
                   /\ pc' = "done"
                   /\ result' = "True"
                   /\ everAbsent' = TRUE
                   /\ UNCHANGED raised
              [] o = "fault" ->
                   HandleException /\ UNCHANGED everAbsent
    /\ UNCHANGED <<max_attempts, attempt, extracted, captcha_text, typed,
                   nonSolverVars>>

\* os.makedirs(...); captcha_img.screenshot(captcha_path)
Screenshot ==
    /\ pc = "Screenshot"
    /\ trace' = Append(trace, "screenshot")
    /\ \E o \in {"ok", "fault"} :
         /\ obs' = o
         /\ IF o = "ok"
              THEN pc' = "Recognizing" /\ UNCHANGED <<result, raised>>
              ELSE HandleException
    /\ UNCHANGED <<max_attempts, attempt, extracted, captcha_text, typed,
                   nDetect, everAbsent, nonSolverVars>>

AttemptsRemain_Inclusive == attempt <= max_attempts

\* if attempt < max_attempts:   (guard of the refresh)
AttemptsRemain == attempt < max_attempts

\* extractor.extract_text(), the alphanumeric filter, and `if not captcha_text`
Recognizing ==
    /\ pc = "Recognizing"
    /\ trace' = Append(trace, "recognize")
    /\ \/ \E t \in ExtractedTexts :
            /\ obs' = "text"
            /\ extracted' = t
            /\ captcha_text' = FilterAlnum(t)
            /\ pc' = IF FilterAlnum(t) = <<>> /\ AttemptsRemain
                       THEN "Refreshing"
                       ELSE "EnterText"
            /\ UNCHANGED <<result, raised>>
       \/ /\ obs' = "fault"
          /\ HandleException
          /\ UNCHANGED <<extracted, captcha_text>>
    /\ UNCHANGED <<max_attempts, attempt, typed, nDetect, everAbsent,
                   nonSolverVars>>

\* refresh_button = browser.find_element(...); refresh_button.click(); continue
\* except NoSuchElementException: only a warning, control falls through
Refreshing ==
    /\ pc = "Refreshing"
    /\ \E o \in {"clicked", "notfound", "findfault", "clickfault"} :
         /\ obs' = o
         /\ CASE o = "clicked" ->
                   /\ trace' = Append(trace, "refresh")
                   /\ pc' = "loop"
                   /\ UNCHANGED <<result, raised>>
              [] o = "notfound" ->
                   /\ trace' = Append(trace, "norefresh")
                   /\ pc' = "EnterText"
                   /\ UNCHANGED <<result, raised>>
              [] o = "findfault" ->
                   /\ UNCHANGED trace
                   /\ HandleException
              [] o = "clickfault" ->
                   /\ trace' = Append(trace, "refresh")
                   /\ HandleException
    /\ UNCHANGED <<max_attempts, attempt, extracted, captcha_text, typed,
                   nDetect, everAbsent, nonSolverVars>>

EnterText_TypesRaw ==
    /\ pc = "EnterText"
    /\ \E o \in {"ok", "nofield", "clearfault", "typefault"} :
         /\ obs' = o
         /\ CASE o = "ok" ->
                   /\ trace' = trace \o <<"clear", "type">>
                   /\ typed' = <<extracted>>
                   /\ pc' = "Submit"
                   /\ UNCHANGED <<result, raised, everAbsent>>
              [] o = "nofield" ->
                   /\ everAbsent' = TRUE
                   /\ UNCHANGED <<trace, typed>>
                   /\ HandleException
              [] o = "clearfault" ->
                   /\ trace' = Append(trace, "clear")
                   /\ UNCHANGED <<typed, everAbsent>>
                   /\ HandleException
              [] o = "typefault" ->
                   /\ trace' = trace \o <<"clear", "type">>
                   /\ typed' = <<extracted>>
                   /\ UNCHANGED everAbsent
                   /\ HandleException
    /\ UNCHANGED <<max_attempts, attempt, extracted, captcha_text, nDetect,
                   nonSolverVars>>

\* input_field = find_element(captchacharacters); clear(); send_keys(captcha_text)
EnterText ==
    /\ pc = "EnterText"
    /\ \E o \in {"ok", "nofield", "clearfault", "typefault"} :
         /\ obs' = o
         /\ CASE o = "ok" ->
                   /\ trace' = trace \o <<"clear", "type">>
                   /\ typed' = <<captcha_text>>
                   /\ pc' = "Submit"
                   /\ UNCHANGED <<result, raised, everAbsent>>
              [] o = "nofield" ->
                   /\ everAbsent' = TRUE
                   /\ UNCHANGED <<trace, typed>>
                   /\ HandleException
              [] o = "clearfault" ->
                   /\ trace' = Append(trace, "clear")
                   /\ UNCHANGED <<typed, everAbsent>>
                   /\ HandleException
              [] o = "typefault" ->
                   /\ trace' = trace \o <<"clear", "type">>
                   /\ typed' = <<captcha_text>>
                   /\ UNCHANGED everAbsent
                   /\ HandleException
    /\ UNCHANGED <<max_attempts, attempt, extracted, captcha_text, nDetect,
                   nonSolverVars>>

\* submit_button = find_element(...); submit_button.click(); time.sleep(3)
Submit ==
    /\ pc = "Submit"
    /\ \E o \in {"ok", "nobutton", "clickfault"} :
         /\ obs' = o
         /\ CASE o = "ok" ->
                   /\ trace' = Append(trace, "submit")
                   /\ pc' = "Verifying"
                   /\ UNCHANGED <<result, raised>>
              [] o = "nobutton" ->
                   /\ UNCHANGED trace
                   /\ HandleException
              [] o = "clickfault" ->
                   /\ trace' = Append(trace, "submit")
                   /\ HandleException
    /\ UNCHANGED <<max_attempts, attempt, extracted, captcha_text, typed,
                   nDetect, everAbsent, nonSolverVars>>

Verifying_PresentReturnsFalse ==
    /\ pc = "Verifying"
    /\ trace' = Append(trace, "verify")
    /\ \E o \in {"present", "absent", "fault"} :
         /\ obs' = o
         /\ CASE o = "present" ->
                   /\ pc' = "done"
                   /\ result' = "False"
                   /\ UNCHANGED <<raised, everAbsent>>
              [] o = "absent" ->
                   /\ pc' = "done"
                   /\ result' = "True"
                   /\ everAbsent' = TRUE
                   /\ UNCHANGED raised
              [] o = "fault" ->
                   HandleException /\ UNCHANGED everAbsent
    /\ UNCHANGED <<max_attempts, attempt, extracted, captcha_text, typed,
                   nDetect, nonSolverVars>>

\* still_captcha = find_element(captchacharacters) => continue
\* except NoSuchElementException => return True
Verifying ==
    /\ pc = "Verifying"
    /\ trace' = Append(trace, "verify")
    /\ \E o \in {"present", "absent", "fault"} :
         /\ obs' = o
         /\ CASE o = "present" ->
                   /\ pc' = "loop"
                   /\ UNCHANGED <<result, raised, everAbsent>>
              [] o = "absent" ->
                   /\ pc' = "done"
                   /\ result' = "True"
                   /\ everAbsent' = TRUE
                   /\ UNCHANGED raised
              [] o = "fault" ->
                   HandleException /\ UNCHANGED everAbsent
    /\ UNCHANGED <<max_attempts, attempt, extracted, captcha_text, typed,
                   nDetect, nonSolverVars>>

(***************************************************************************)
(* _recognize_with_rotations                                               *)
(***************************************************************************)
angles == <<-30, -15, 15, 30>>

\* best_char, best_conf = "", -1.0
InitBestChar == <<>>

InitBestConf_Zero == 0

InitBestConf == -1

\* Texts and confidences the engine may report (data["text"], data["conf"]).
EngineTexts == {<<>>, <<" ">>, <<" ", "A", " ">>, <<"B">>}

EngineConfs == {"-1", "0", "1", "x"}

EnginePairs == [text : EngineTexts, conf : EngineConfs]

EngineOutputs == SeqsUpTo(EnginePairs, MaxPairs)

\* the whitespace characters str.strip() removes
Whitespace == {" ", "\n"}

RECURSIVE lstrip(_)
lstrip(s) ==
    IF s # <<>> /\ Head(s) \in Whitespace THEN lstrip(Tail(s)) ELSE s

RECURSIVE rstrip(_)
rstrip(s) ==
    IF s # <<>> /\ s[Len(s)] \in Whitespace
      THEN rstrip(SubSeq(s, 1, Len(s) - 1))
      ELSE s

\* txt.strip()
strip(s) == rstrip(lstrip(s))

\* float(conf) succeeds
Parses(c) == c \in {"-1", "0", "1"}

\* float(conf)
float(c) == CASE c = "-1" -> -1 [] c = "0" -> 0 [] c = "1" -> 1

Better_OrEqual(c_conf, bconf) == c_conf >= bconf

\* if c_conf > best_conf
Better(c_conf, bconf) == c_conf > bconf

RECURSIVE ScanPairs_ParseAborts(_, _, _, _)
ScanPairs_ParseAborts(data, i, bchar, bconf) ==
    IF i > Len(data) THEN <<bchar, bconf>>
    ELSE LET txt == strip(data[i].text) IN
         IF txt = <<>> THEN ScanPairs_ParseAborts(data, i + 1, bchar, bconf)
         ELSE IF ~Parses(data[i].conf) THEN <<bchar, bconf>>
         ELSE IF Better(float(data[i].conf), bconf)
                THEN <<txt, float(data[i].conf)>>
                ELSE <<bchar, bconf>>

\* for txt, conf in zip(data["text"], data["conf"]): ... break
\* returns <<best_char, best_conf>> after the scan of one angle's pairs
RECURSIVE ScanPairs(_, _, _, _)
ScanPairs(data, i, bchar, bconf) ==
    IF i > Len(data) THEN <<bchar, bconf>>
    ELSE LET txt == strip(data[i].text) IN
         IF txt = <<>> THEN ScanPairs(data, i + 1, bchar, bconf)
         ELSE IF ~Parses(data[i].conf) THEN ScanPairs(data, i + 1, bchar, bconf)
         ELSE IF Better(float(data[i].conf), bconf)
                THEN <<txt, float(data[i].conf)>>
                ELSE <<bchar, bconf>>

NoPair == [found |-> FALSE, text |-> <<>>, conf |-> 0]

\* The pair of one angle at which the scan stops: non-empty trimmed text and
\* a confidence that parses.
AcceptedPair(data) ==
    LET ok == {i \in DOMAIN data :
                 strip(data[i].text) # <<>> /\ Parses(data[i].conf)}
    IN IF ok = {} THEN NoPair
       ELSE LET i == CHOOSE j \in ok : \A k \in ok : j <= k
            IN [found |-> TRUE, text |-> strip(data[i].text),
                conf |-> float(data[i].conf)]

\* A picture together with the angle it has been turned by.
Unrotated(img) == [img |-> img, rot |-> 0]

\* Image.rotate(ang, expand=True, fillcolor=white): a new picture, turned by
\* ang more than the one it is called on, which is left as it was
rotate(im, ang) == [img |-> im.img, rot |-> im.rot + ang]

\* no picture (rot before the first iteration)
NoImage == Unrotated(<<>>)

RotateSource_Cumulative(image, rot) == IF rot = NoImage THEN image ELSE rot

\* the picture line 82 rotates: the parameter image
RotateSource(image, rot) == image

\* the segment of a call taken alone: one run of MinPartWidth black columns
SamplePart == <<[x \in 1..5 |-> <<0, 0, 0>>]>>

RecogInit ==
    /\ r_pc = "angles"
    /\ ang_idx = 0
    /\ best_char = InitBestChar
    /\ best_conf = InitBestConf
    /\ accepted = <<>>
    /\ r_result = <<>>
    /\ r_image = Unrotated(SamplePart)
    /\ r_rot = NoImage
    /\ r_calls = <<>>

RecogIdle ==
    /\ r_pc = "idle"
    /\ ang_idx = 0
    /\ best_char = InitBestChar
    /\ best_conf = InitBestConf
    /\ accepted = <<>>
    /\ r_result = <<>>
    /\ r_image = NoImage
    /\ r_rot = NoImage
    /\ r_calls = <<>>

\* One iteration of `for ang in angles`: rotate, image_to_data, scan.
\* The body of `for ang in angles` for the engine answer data:
\* rot = image.rotate(ang, ...); image_to_data(rot, ...); the scan.
AngleStep(data) ==
    LET ang == angles[ang_idx + 1]
        rot == rotate(RotateSource(r_image, r_rot), ang)
        nb == ScanPairs(data, 1, best_char, best_conf)
    IN /\ r_rot' = rot
       /\ r_calls' = Append(r_calls, [ang |-> ang, arg |-> rot])
       /\ best_char' = nb[1]
       /\ best_conf' = nb[2]
       /\ ang_idx' = ang_idx + 1
       /\ UNCHANGED <<r_pc, r_result, r_image>>

RecognizeAngle ==
    /\ r_pc = "angles"
    /\ ang_idx < Len(angles)
    /\ \E data \in EngineOutputs :
         /\ AngleStep(data)
         /\ accepted' = Append(accepted, AcceptedPair(data))
    /\ UNCHANGED nonRecogVars

\* return best_char
RecogReturn ==
    /\ r_pc = "angles"
    /\ ang_idx = Len(angles)
    /\ r_pc' = "done"
    /\ r_result' = best_char
    /\ UNCHANGED <<ang_idx, best_char, best_conf, accepted, r_image, r_rot,
                   r_calls, nonRecogVars>>

(***************************************************************************)
(* The scan of one angle, taken alone: the inner for loop of               *)
(* _recognize_with_rotations applied to one engine output.                 *)
(***************************************************************************)
\* values of (best_char, best_conf) an angle can start from
ScanPriors == {<<InitBestChar, InitBestConf>>, <<<<"C">>, 0>>, <<<<"C">>, 1>>}

ScanInit ==
    /\ sc_pc = "ready"
    /\ sc_data \in EngineOutputs
    /\ sc_prior \in ScanPriors
    /\ sc_out = sc_prior

ScanIdle ==
    /\ sc_pc = "idle"
    /\ sc_data = <<>>
    /\ sc_prior = <<InitBestChar, InitBestConf>>
    /\ sc_out = <<InitBestChar, InitBestConf>>

\* the inner loop over zip(data["text"], data["conf"]) for one angle
ScanAngle ==
    /\ sc_pc = "ready"
    /\ sc_out' = ScanPairs(sc_data, 1, sc_prior[1], sc_prior[2])
    /\ sc_pc' = "scanned"
    /\ UNCHANGED <<sc_data, sc_prior, nonScanVars>>

(***************************************************************************)
(* Images.  A pixel is an RGB triple, an image a sequence of rows, each a  *)
(* sequence of pixels; boxes and column numbers are 0-based as in PIL and  *)
(* numpy.                                                                  *)
(***************************************************************************)
White == <<255, 255, 255>>

Yellow == <<255, 255, 0>>

Black == <<0, 0, 0>>

PixelVals == {White, Yellow, Black}

Height(img) == Len(img)

Width(img) == IF Len(img) = 0 THEN 0 ELSE Len(img[1])

Images(maxh, maxw) ==
    UNION {[1..h -> [1..w -> PixelVals]] : h \in 1..maxh, w \in 1..maxw}

Min(S) == CHOOSE x \in S : \A y \in S : x <= y

Max(S) == CHOOSE x \in S : \A y \in S : x >= y

\* np.all(img_array == [255,255,255], axis=-1)
is_white(p) == p = <<255, 255, 255>>

\* image.crop((left, top, right, bottom))
crop(img, box) ==
    [r \in 1..(box[4] - box[2]) |->
        [c \in 1..(box[3] - box[1]) |-> img[box[2] + r][box[1] + c]]]

(***************************************************************************)
(* _trim_whitespace                                                        *)
(***************************************************************************)
\* rows = np.where(~np.all(is_white, axis=1))[0]
NonWhiteRows(img) ==
    {r \in 0..(Height(img) - 1) :
        \E c \in 1..Width(img) : ~is_white(img[r + 1][c])}

\* cols = np.where(~np.all(is_white, axis=0))[0]
NonWhiteCols(img) ==
    {c \in 0..(Width(img) - 1) :
        \E r \in 1..Height(img) : ~is_white(img[r][c + 1])}

trim_NoPlusOne(img) ==
    LET rows == NonWhiteRows(img)
        cols == NonWhiteCols(img)
    IN IF rows = {} \/ cols = {} THEN img
       ELSE crop(img, <<Min(cols), Min(rows), Max(cols), Max(rows)>>)

trim_RowsOnly(img) ==
    LET rows == NonWhiteRows(img)
        cols == NonWhiteCols(img)
    IN IF rows = {} \/ cols = {} THEN img
       ELSE crop(img, <<0, Min(rows), Width(img), Max(rows) + 1>>)

\* top, bottom = rows[0], rows[-1]+1; left, right = cols[0], cols[-1]+1
_trim_whitespace(img) ==
    LET rows == NonWhiteRows(img)
        cols == NonWhiteCols(img)
    IN IF rows = {} \/ cols = {} THEN img
       ELSE crop(img, <<Min(cols), Min(rows), Max(cols) + 1, Max(rows) + 1>>)

TrimInit ==
    /\ t_pc = "ready"
    /\ t_img \in Images(MaxImgH, MaxImgW)
    /\ t_out = <<>>
    /\ t_out2 = <<>>

TrimIdle ==
    /\ t_pc = "idle"
    /\ t_img = <<>>
    /\ t_out = <<>>
    /\ t_out2 = <<>>

\* image = self._trim_whitespace(image)
TrimOnce ==
    /\ t_pc = "ready"
    /\ t_out' = _trim_whitespace(t_img)
    /\ t_pc' = "once"
    /\ UNCHANGED <<t_img, t_out2, nonTrimVars>>

\* _trim_whitespace applied to the image it returned
TrimAgain ==
    /\ t_pc = "once"
    /\ t_out2' = _trim_whitespace(t_out)
    /\ t_pc' = "twice"
    /\ UNCHANGED <<t_img, t_out, nonTrimVars>>

(***************************************************************************)
(* _segment_letters_by_projection                                          *)
(***************************************************************************)
\* image.convert('L'): the ITU-R 601-2 luma transform as PIL computes it
luma(p) == (19595 * p[1] + 38470 * p[2] + 7471 * p[3] + 32768) \div 65536

is_ink_Inverted(p) == luma(p) >= 32

\* binary = np.where(arr < 32, 0, 255); binary == 0
is_ink(p) == luma(p) < 32

\* vsum = np.sum(binary==0, axis=0)
vsum(img) ==
    [x \in 1..Width(img) |->
        Cardinality({r \in 1..Height(img) : is_ink(img[r][x])})]

\* the noise threshold of the two width tests
MinPartWidth == 5

\* start = None
None == -1

RECURSIVE ScanColumns_EdgeUnchecked(_, _, _, _)
ScanColumns_EdgeUnchecked(vs, x, start, parts) ==
    IF x = Len(vs)
      THEN IF start # None
             THEN Append(parts, <<start, Len(vs)>>)
             ELSE parts
    ELSE IF vs[x + 1] > 0 /\ start = None
      THEN ScanColumns_EdgeUnchecked(vs, x + 1, x, parts)
    ELSE IF vs[x + 1] = 0 /\ start # None
      THEN ScanColumns_EdgeUnchecked(vs, x + 1, None,
                       IF x - start >= MinPartWidth
                         THEN Append(parts, <<start, x>>)
                         ELSE parts)
    ELSE ScanColumns_EdgeUnchecked(vs, x + 1, start, parts)

RECURSIVE ScanColumns_StrictWidth(_, _, _, _)
ScanColumns_StrictWidth(vs, x, start, parts) ==
    IF x = Len(vs)
      THEN IF start # None /\ Len(vs) - start >= MinPartWidth
             THEN Append(parts, <<start, Len(vs)>>)
             ELSE parts
    ELSE IF vs[x + 1] > 0 /\ start = None
      THEN ScanColumns_StrictWidth(vs, x + 1, x, parts)
    ELSE IF vs[x + 1] = 0 /\ start # None
      THEN ScanColumns_StrictWidth(vs, x + 1, None,
                       IF x - start > MinPartWidth
                         THEN Append(parts, <<start, x>>)
                         ELSE parts)
    ELSE ScanColumns_StrictWidth(vs, x + 1, start, parts)

\* for x, count in enumerate(vsum): ...  followed by the test of the run
\* still open after the last column; parts holds the (start, end) pairs of
\* the crops image.crop((start, 0, end, image.height))
RECURSIVE ScanColumns(_, _, _, _)
ScanColumns(vs, x, start, parts) ==
    IF x = Len(vs)
      THEN IF start # None /\ Len(vs) - start >= MinPartWidth
             THEN Append(parts, <<start, Len(vs)>>)
             ELSE parts
    ELSE IF vs[x + 1] > 0 /\ start = None
      THEN ScanColumns(vs, x + 1, x, parts)
    ELSE IF vs[x + 1] = 0 /\ start # None
      THEN ScanColumns(vs, x + 1, None,
                       IF x - start >= MinPartWidth
                         THEN Append(parts, <<start, x>>)
                         ELSE parts)
    ELSE ScanColumns(vs, x + 1, start, parts)

\* parts, start = [], None
SegmentBoxes(vs) == ScanColumns(vs, 0, None, <<>>)

\* the parts returned: the crops of the image at the boxes, full height
_segment_letters_by_projection(img) ==
    LET boxes == SegmentBoxes(vsum(img))
    IN [i \in 1..Len(boxes) |->
          crop(img, <<boxes[i][1], 0, boxes[i][2], Height(img)>>)]

\* Column profiles, given as runs of equal counts.
RunCounts == {0, 2}

RunLens == {1, MinPartWidth - 1, MinPartWidth}

RunKinds == [val : RunCounts, len : RunLens]

RECURSIVE Expand(_)
Expand(runs) ==
    IF runs = <<>> THEN <<>>
    ELSE [i \in 1..Head(runs).len |-> Head(runs).val] \o Expand(Tail(runs))

Profiles == {Expand(runs) : runs \in SeqsUpTo(RunKinds, MaxRuns) \ {<<>>}}

SegInit ==
    /\ g_pc = "ready"
    /\ g_vsum \in Profiles
    /\ g_boxes = <<>>

SegIdle ==
    /\ g_pc = "idle"
    /\ g_vsum = <<>>
    /\ g_boxes = <<>>

\* the scan of the columns of one image
SegmentScan ==
    /\ g_pc = "ready"
    /\ g_boxes' = SegmentBoxes(g_vsum)
    /\ g_pc' = "done"
    /\ UNCHANGED <<g_vsum, nonSegVars>>

(***************************************************************************)
(* The assembling expression of extract_text:                              *)
(*   "".join(extracted_text).replace(' ', '').strip()                      *)
(***************************************************************************)
\* "".join(texts)
RECURSIVE join(_)
join(texts) == IF texts = <<>> THEN <<>> ELSE Head(texts) \o join(Tail(texts))

NotSpace(ch) == ch # " "

\* s.replace(' ', '')
replace_spaces(s) == SelectSeq(s, NotSpace)

assemble_NoReplace(texts) == strip(join(texts))

assemble(texts) == strip(replace_spaces(join(texts)))

PartTexts == {<<>>, <<"A">>, <<"B">>, <<" ">>, <<"\n">>, <<"A", " ", "B">>}

AsmInit ==
    /\ a_pc = "ready"
    /\ a_parts \in SeqsUpTo(PartTexts, MaxParts)
    /\ a_out = <<>>

AsmIdle ==
    /\ a_pc = "idle"
    /\ a_parts = <<>>
    /\ a_out = <<>>

\* return "".join(extracted_text).replace(' ', '').strip()
Assemble ==
    /\ a_pc = "ready"
    /\ a_out' = assemble(a_parts)
    /\ a_pc' = "done"
    /\ UNCHANGED <<a_parts, nonAsmVars>>

(***************************************************************************)
(* extract_text                                                            *)
(***************************************************************************)
\* Images a file can hold: rows given as runs of equal pixels; the image is
\* the row alone, the row twice, or the row above an all-white row.
PixelRunKinds == [val : PixelVals, len : {1, MinPartWidth}]

PixelRows == {Expand(runs) : runs \in SeqsUpTo(PixelRunKinds, MaxPixelRuns) \ {<<>>}}

WhiteRow(w) == [x \in 1..w |-> White]

StoredImages ==
    UNION {{<<row>>, <<row, row>>, <<row, WhiteRow(Len(row))>>} :
             row \in PixelRows}

\* the values _recognize_with_rotations can return: "" or a trimmed text
RecogReturns == {strip(t) : t \in EngineTexts \cup {<<"A", " ", "B">>}}

ExtractInit ==
    /\ e_pc = "exists"
    /\ \/ e_file \in {"missing", "unreadable"} /\ e_stored = <<>>
       \/ e_file = "image" /\ e_stored \in StoredImages
    /\ e_image = <<>>
    /\ e_parts = <<>>
    /\ e_idx = 0
    /\ extracted_text = <<>>
    /\ e_result = <<>>
    /\ e_raised = FALSE
    /\ e_fault = "none"
    /\ e_trace = <<>>
    /\ e_calls = <<>>

ExtractIdle ==
    /\ e_pc = "idle"
    /\ e_file = "missing"
    /\ e_stored = <<>>
    /\ e_image = <<>>
    /\ e_parts = <<>>
    /\ e_idx = 0
    /\ extracted_text = <<>>
    /\ e_result = <<>>
    /\ e_raised = FALSE
    /\ e_fault = "none"
    /\ e_trace = <<>>
    /\ e_calls = <<>>

\* if not os.path.exists(self.image_path): return ""
CheckExists ==
    /\ e_pc = "exists"
    /\ e_trace' = Append(e_trace, "exists")
    /\ IF e_file = "missing"
         THEN e_pc' = "done" /\ e_result' = <<>>
         ELSE e_pc' = "open" /\ UNCHANGED e_result
    /\ UNCHANGED <<e_file, e_stored, e_image, e_parts, e_idx, extracted_text,
                   e_raised, e_fault, e_calls, nonExtractVars>>

OpenAndTrim_Unguarded ==
    /\ e_pc = "open"
    /\ IF e_file = "unreadable"
         THEN /\ e_trace' = Append(e_trace, "open")
              /\ e_fault' = "open"
              /\ e_pc' = "done"
              /\ e_raised' = TRUE
              /\ UNCHANGED <<e_result, e_image>>
         ELSE /\ e_trace' = e_trace \o <<"open", "trim">>
              /\ e_image' = _trim_whitespace(e_stored)
              /\ e_pc' = "segment"
              /\ UNCHANGED <<e_result, e_fault, e_raised>>
    /\ UNCHANGED <<e_file, e_stored, e_parts, e_idx, extracted_text,
                   e_calls, nonExtractVars>>

\* try: image = Image.open(path).convert('RGB'); image = _trim_whitespace(image)
\* except Exception: return ""
OpenAndTrim ==
    /\ e_pc = "open"
    /\ IF e_file = "unreadable"
         THEN /\ e_trace' = Append(e_trace, "open")
              /\ e_fault' = "open"
              /\ e_pc' = "done"
              /\ e_result' = <<>>
              /\ UNCHANGED <<e_image, e_raised>>
         ELSE /\ e_trace' = e_trace \o <<"open", "trim">>
              /\ e_image' = _trim_whitespace(e_stored)
              /\ e_pc' = "segment"
              /\ UNCHANGED <<e_result, e_fault, e_raised>>
    /\ UNCHANGED <<e_file, e_stored, e_parts, e_idx, extracted_text,
                   e_calls, nonExtractVars>>

\* parts = self._segment_letters_by_projection(image); extracted_text = []
SegmentImage ==
    /\ e_pc = "segment"
    /\ e_trace' = Append(e_trace, "segment")
    /\ e_parts' = _segment_letters_by_projection(e_image)
    /\ extracted_text' = <<>>
    /\ e_pc' = "loop"
    /\ UNCHANGED <<e_file, e_stored, e_image, e_idx, e_result, e_raised,
                   e_fault, e_calls, nonExtractVars>>

\* ch = self._recognize_with_rotations(part); extracted_text.append(ch)
\* (no try around the call: an exception of the rotation or of the engine
\* leaves extract_text)
RecognizePart ==
    /\ e_pc = "loop"
    /\ e_idx < Len(e_parts)
    /\ e_trace' = Append(e_trace, "recognize")
    /\ e_calls' = Append(e_calls, [idx |-> e_idx, part |-> e_parts[e_idx + 1]])
    /\ e_idx' = e_idx + 1
    /\ \/ \E ch \in RecogReturns :
            /\ extracted_text' = Append(extracted_text, ch)
            /\ UNCHANGED <<e_pc, e_raised, e_fault>>
       \/ /\ e_fault' = "recognize"
          /\ e_raised' = TRUE
          /\ e_pc' = "done"
          /\ UNCHANGED extracted_text
    /\ UNCHANGED <<e_file, e_stored, e_image, e_parts, e_result,
                   nonExtractVars>>

\* return "".join(extracted_text).replace(' ', '').strip()
ReturnText ==
    /\ e_pc = "loop"
    /\ e_idx = Len(e_parts)
    /\ e_result' = assemble(extracted_text)
    /\ e_pc' = "done"
    /\ UNCHANGED <<e_file, e_stored, e_image, e_parts, e_idx, extracted_text,
                   e_raised, e_fault, e_trace, e_calls, nonExtractVars>>

(***************************************************************************)
(* extract_text with its calls of _recognize_with_rotations stepped angle  *)
(* by angle.                                                               *)
(***************************************************************************)
MaxSegRuns == 4

SegRunKinds == [val : {White, Black}, len : {MinPartWidth}]

\* one-row images made of white and black runs of MinPartWidth columns
SegImages ==
    {<<Expand(runs)>> : runs \in SeqsUpTo(SegRunKinds, MaxSegRuns) \ {<<>>}}

PartsInit ==
    /\ e_pc = "exists"
    /\ \/ e_file \in {"missing", "unreadable"} /\ e_stored = <<>>
       \/ e_file = "image" /\ e_stored \in SegImages
    /\ e_image = <<>>
    /\ e_parts = <<>>
    /\ e_idx = 0
    /\ extracted_text = <<>>
    /\ e_result = <<>>
    /\ e_raised = FALSE
    /\ e_fault = "none"
    /\ e_trace = <<>>
    /\ e_calls = <<>>

\* for idx, part in enumerate(parts): ... self._recognize_with_rotations(part)
\* up to the first statements of the callee (lines 73-76)
CallRecognizer ==
    /\ e_pc = "loop"
    /\ e_idx < Len(e_parts)
    /\ e_trace' = Append(e_trace, "recognize")
    /\ e_calls' = Append(e_calls, [idx |-> e_idx, part |-> e_parts[e_idx + 1]])
    /\ e_idx' = e_idx + 1
    /\ e_pc' = "recognizing"
    /\ r_pc' = "angles"
    /\ ang_idx' = 0
    /\ best_char' = InitBestChar
    /\ best_conf' = InitBestConf
    /\ accepted' = <<>>
    /\ r_result' = <<>>
    /\ r_image' = Unrotated(e_parts[e_idx + 1])
    /\ r_rot' = NoImage
    /\ r_calls' = <<>>
    /\ UNCHANGED <<e_file, e_stored, e_image, e_parts, extracted_text,
                   e_result, e_raised, e_fault>>
    /\ UNCHANGED <<solverVars, scanVars, trimVars, segVars, asmVars, sessVars,
                   proxyVars>>

\* one iteration of `for ang in angles` in the call made for a part
RecognizeAngleOfPart ==
    /\ e_pc = "recognizing"
    /\ r_pc = "angles"
    /\ ang_idx < Len(angles)
    /\ \E data \in EngineOutputs : AngleStep(data)
    /\ UNCHANGED <<accepted, nonRecogVars>>

\* image.rotate or image_to_data raises in an iteration: nothing catches it
\* in _recognize_with_rotations nor in extract_text
EngineFault ==
    /\ e_pc = "recognizing"
    /\ r_pc = "angles"
    /\ ang_idx < Len(angles)
    /\ r_pc' = "idle"
    /\ e_fault' = "recognize"
    /\ e_raised' = TRUE
    /\ e_pc' = "done"
    /\ UNCHANGED <<ang_idx, best_char, best_conf, accepted, r_result, r_image,
                   r_rot, r_calls>>
    /\ UNCHANGED <<e_file, e_stored, e_image, e_parts, e_idx, extracted_text,
                   e_result, e_trace, e_calls>>
    /\ UNCHANGED <<solverVars, scanVars, trimVars, segVars, asmVars, sessVars,
                   proxyVars>>

\* ch = <value returned>; extracted_text.append(ch)
AppendChar ==
    /\ e_pc = "recognizing"
    /\ r_pc = "done"
    /\ extracted_text' = Append(extracted_text, r_result)
    /\ e_pc' = "loop"
    /\ r_pc' = "idle"
    /\ UNCHANGED <<ang_idx, best_char, best_conf, accepted, r_result, r_image,
                   r_rot, r_calls>>
    /\ UNCHANGED <<e_file, e_stored, e_image, e_parts, e_idx, e_result,
                   e_raised, e_fault, e_trace, e_calls>>
    /\ UNCHANGED <<solverVars, scanVars, trimVars, segVars, asmVars, sessVars,
                   proxyVars>>

(***************************************************************************)
(* Two solve sessions side by side: two calls of _solve_captcha, each with *)
(* its own browser and its own locals, in one working directory.  A        *)
(* picture is named by the session and the attempt that captured it.       *)
(***************************************************************************)
Sessions == {1, 2}

\* the max_attempts parameter of both calls
MaxSessAttempts == 2

Picture(s, k) == [session |-> s, attempt |-> k]

NoPicture == Picture(0, 0)

\* captcha_path = f'captchas/captcha_{attempt}.png'
captcha_path(k) == <<"captchas", "captcha_", k, ".png">>

Paths == {captcha_path(k) : k \in 1..MaxSessAttempts}

SessInit ==
    /\ ss_pc = [s \in Sessions |-> "loop"]
    /\ ss_attempt = [s \in Sessions |-> 0]
    /\ ss_result = [s \in Sessions |-> "running"]
    /\ ss_read = [s \in Sessions |-> NoPicture]
    /\ ss_typed = [s \in Sessions |-> NoPicture]
    /\ files = [f \in Paths |-> NoPicture]

SessIdle ==
    /\ ss_pc = [s \in Sessions |-> "idle"]
    /\ ss_attempt = [s \in Sessions |-> 0]
    /\ ss_result = [s \in Sessions |-> "running"]
    /\ ss_read = [s \in Sessions |-> NoPicture]
    /\ ss_typed = [s \in Sessions |-> NoPicture]
    /\ files = [f \in Paths |-> NoPicture]

\* for attempt in range(1, max_attempts + 1) ... return False
SessLoopHead(s) ==
    /\ ss_pc[s] = "loop"
    /\ IF ss_attempt[s] < MaxSessAttempts
         THEN /\ ss_attempt' = [ss_attempt EXCEPT ![s] = @ + 1]
              /\ ss_pc' = [ss_pc EXCEPT ![s] = "Detecting"]
              /\ ss_read' = [ss_read EXCEPT ![s] = NoPicture]
              /\ ss_typed' = [ss_typed EXCEPT ![s] = NoPicture]
              /\ UNCHANGED ss_result
         ELSE /\ ss_pc' = [ss_pc EXCEPT ![s] = "done"]
              /\ ss_result' = [ss_result EXCEPT ![s] = "False"]
              /\ UNCHANGED <<ss_attempt, ss_read, ss_typed>>
    /\ UNCHANGED <<files, nonSessVars>>

\* except Exception: if attempt >= max_attempts: return False
SessException(s) ==
    IF ss_attempt[s] >= MaxSessAttempts
      THEN /\ ss_pc' = [ss_pc EXCEPT ![s] = "done"]
           /\ ss_result' = [ss_result EXCEPT ![s] = "False"]
      ELSE /\ ss_pc' = [ss_pc EXCEPT ![s] = "loop"]
           /\ UNCHANGED ss_result

\* the wait for the image of the session's own page
SessDetecting(s) ==
    /\ ss_pc[s] = "Detecting"
    /\ \E o \in {"found", "timeout", "fault"} :
         CASE o = "found" ->
                /\ ss_pc' = [ss_pc EXCEPT ![s] = "Screenshot"]
                /\ UNCHANGED ss_result
           [] o = "timeout" ->
                /\ ss_pc' = [ss_pc EXCEPT ![s] = "done"]
                /\ ss_result' = [ss_result EXCEPT ![s] = "True"]
           [] o = "fault" -> SessException(s)
    /\ UNCHANGED <<ss_attempt, ss_read, ss_typed, files, nonSessVars>>

\* captcha_img.screenshot(captcha_path): the file at the path now holds the
\* picture of this session's challenge
SessScreenshot(s) ==
    /\ ss_pc[s] = "Screenshot"
    /\ \/ /\ files' = [files EXCEPT ![captcha_path(ss_attempt[s])] =
                                       Picture(s, ss_attempt[s])]
          /\ ss_pc' = [ss_pc EXCEPT ![s] = "Recognizing"]
          /\ UNCHANGED ss_result
       \/ SessException(s) /\ UNCHANGED files
    /\ UNCHANGED <<ss_attempt, ss_read, ss_typed, nonSessVars>>
\* ImageTextExtractor(captcha_path).extract_text(): opens whatever the file
\* at the path holds now; then the filter and `if not captcha_text`
SessRecognizing(s) ==
    /\ ss_pc[s] = "Recognizing"
    /\ \/ /\ ss_read' = [ss_read EXCEPT ![s] = files[captcha_path(ss_attempt[s])]]
          /\ \E empty \in BOOLEAN :
               ss_pc' = [ss_pc EXCEPT ![s] =
                           IF empty /\ ss_attempt[s] < MaxSessAttempts
                             THEN "Refreshing" ELSE "EnterText"]
          /\ UNCHANGED ss_result
       \/ SessException(s) /\ UNCHANGED ss_read
    /\ UNCHANGED <<ss_attempt, ss_typed, files, nonSessVars>>

\* the refresh button: clicked => continue; not found => falls through
SessRefreshing(s) ==
    /\ ss_pc[s] = "Refreshing"
    /\ \E o \in {"clicked", "notfound", "fault"} :
         CASE o = "clicked" ->
                /\ ss_pc' = [ss_pc EXCEPT ![s] = "loop"]
                /\ UNCHANGED ss_result
           [] o = "notfound" ->
                /\ ss_pc' = [ss_pc EXCEPT ![s] = "EnterText"]
                /\ UNCHANGED ss_result
           [] o = "fault" -> SessException(s)
    /\ UNCHANGED <<ss_attempt, ss_read, ss_typed, files, nonSessVars>>

\* input_field.clear(); input_field.send_keys(captcha_text);
\* submit_button.click(): all in the session's own browser
SessEnterText(s) ==
    /\ ss_pc[s] = "EnterText"
    /\ \/ /\ ss_typed' = [ss_typed EXCEPT ![s] = ss_read[s]]
          /\ ss_pc' = [ss_pc EXCEPT ![s] = "Verifying"]
          /\ UNCHANGED ss_result
       \/ SessException(s) /\ UNCHANGED ss_typed
    /\ UNCHANGED <<ss_attempt, ss_read, files, nonSessVars>>

\* the lookup of the text-input field after the submit click
SessVerifying(s) ==
    /\ ss_pc[s] = "Verifying"
    /\ \E o \in {"present", "absent", "fault"} :
         CASE o = "present" ->
                /\ ss_pc' = [ss_pc EXCEPT ![s] = "loop"]
                /\ UNCHANGED ss_result
           [] o = "absent" ->
                /\ ss_pc' = [ss_pc EXCEPT ![s] = "done"]
                /\ ss_result' = [ss_result EXCEPT ![s] = "True"]
           [] o = "fault" -> SessException(s)
    /\ UNCHANGED <<ss_attempt, ss_read, ss_typed, files, nonSessVars>>

(***************************************************************************)
(* ProxyManager (proxy_manager.py): time-based rotation over a loaded list. *)
(***************************************************************************)
MaxProxies == 3

MaxClock == 3

ProxyNames == {"p1", "p2"}

\* the lists load_proxies can leave in self.proxies: the non-empty lines of
\* the file in file order, repeated lines included
ProxyLists == SeqsUpTo(ProxyNames, MaxProxies)

NoneProxy == "None"

\* current_proxy_start_time = None
NoneTime == 0

\* self.rotation_seconds, in ticks of the clock
rotation_seconds == 2

Range(l) == {l[i] : i \in DOMAIN l}

\* list.remove(x): the list without its first element equal to x
remove(l, x) ==
    LET i == Min({j \in DOMAIN l : l[j] = x})
    IN SubSeq(l, 1, i - 1) \o SubSeq(l, i + 1, Len(l))

\* __init__ followed by load_proxies
ProxyInit ==
    /\ proxies \in ProxyLists
    /\ available_proxies = proxies
    /\ used_proxies = {}
    /\ current_proxy = NoneProxy
    /\ current_proxy_start_time = NoneTime
    /\ now = 1
    /\ px_op = "load_proxies"
    /\ px_ret = NoneProxy
    /\ px_avail = <<>>
    /\ px_used = {}
    /\ px_reset = FALSE

ProxyIdle ==
    /\ proxies = <<>>
    /\ available_proxies = <<>>
    /\ used_proxies = {}
    /\ current_proxy = NoneProxy
    /\ current_proxy_start_time = NoneTime
    /\ now = 0
    /\ px_op = "idle"
    /\ px_ret = NoneProxy
    /\ px_avail = <<>>
    /\ px_used = {}
    /\ px_reset = FALSE

\* time passes between two calls
Tick ==
    /\ now < MaxClock
    /\ now' = now + 1
    /\ UNCHANGED <<proxies, available_proxies, used_proxies, current_proxy,
                   current_proxy_start_time, px_op, px_ret, px_avail, px_used,
                   px_reset, nonProxyVars>>

\* a call of reset_proxy_rotation from outside
reset_proxy_rotation ==
    /\ px_op' = "reset_proxy_rotation"
    /\ available_proxies' = proxies
    /\ used_proxies' = {}
    /\ current_proxy' = NoneProxy
    /\ current_proxy_start_time' = NoneTime
    /\ px_ret' = NoneProxy
    /\ px_avail' = available_proxies
    /\ px_used' = used_proxies
    /\ px_reset' = TRUE
    /\ UNCHANGED <<proxies, now, nonProxyVars>>

\* the body of get_next_proxy, the reset of lines 145-148 included
NextProxyBody ==
    LET doReset == available_proxies = <<>>
        avail0 == IF doReset THEN proxies ELSE available_proxies
        used0 == IF doReset THEN {} ELSE used_proxies
    IN /\ px_op' = "get_next_proxy"
       /\ px_avail' = available_proxies
       /\ px_used' = used0
       /\ px_reset' = doReset
       /\ IF avail0 = <<>>
            THEN /\ px_ret' = NoneProxy
                 /\ available_proxies' = avail0
                 /\ used_proxies' = used0
                 /\ current_proxy' = NoneProxy
                 /\ current_proxy_start_time' = NoneTime
            ELSE \E i \in DOMAIN avail0 :
                   LET proxy == avail0[i] IN
                     /\ available_proxies' = remove(avail0, proxy)
                     /\ used_proxies' = used0 \cup {proxy}
                     /\ current_proxy' = proxy
                     /\ current_proxy_start_time' = now
                     /\ px_ret' = proxy
       /\ UNCHANGED <<proxies, now, nonProxyVars>>

get_next_proxy == NextProxyBody

should_rotate_proxy ==
    \/ current_proxy = NoneProxy
    \/ current_proxy_start_time = NoneTime
    \/ now - current_proxy_start_time >= rotation_seconds

\* get_current_proxy (and get_proxy_for_selenium, which only calls it)
get_current_proxy ==
    IF should_rotate_proxy
      THEN NextProxyBody
      ELSE /\ px_op' = "get_current_proxy"
           /\ px_ret' = current_proxy
           /\ px_avail' = available_proxies
           /\ px_used' = used_proxies
           /\ px_reset' = FALSE
           /\ UNCHANGED <<proxies, available_proxies, used_proxies,
                          current_proxy, current_proxy_start_time, now,
                          nonProxyVars>>

(***************************************************************************)
(* Specifications.                                                         *)
(***************************************************************************)
Init == SolverInit /\ RecogIdle /\ ScanIdle /\ TrimIdle /\ SegIdle /\ AsmIdle
    /\ ExtractIdle
    /\ SessIdle /\ ProxyIdle

Next ==
    \/ LoopHead
    \/ Detecting
    \/ Screenshot
    \/ Recognizing
    \/ Refreshing
    \/ EnterText
    \/ Submit
    \/ Verifying

Spec == Init /\ [][Next]_vars

\* Every call the controller makes returns or raises in finite time (bounded
\* waits, fixed sleeps), so the sequential body always takes its next step.
LiveSpec == Spec /\ WF_vars(Next)

InitRecog == RecogInit /\ SolverIdle /\ ScanIdle /\ TrimIdle /\ SegIdle /\ AsmIdle
    /\ ExtractIdle
    /\ SessIdle /\ ProxyIdle

NextRecog ==
    \/ RecognizeAngle
    \/ RecogReturn

SpecRecog == InitRecog /\ [][NextRecog]_vars

InitScan == ScanInit /\ SolverIdle /\ RecogIdle /\ TrimIdle /\ SegIdle /\ AsmIdle
    /\ ExtractIdle
    /\ SessIdle /\ ProxyIdle

NextScan == ScanAngle

SpecScan == InitScan /\ [][NextScan]_vars

InitTrim == TrimInit /\ SolverIdle /\ RecogIdle /\ ScanIdle /\ SegIdle /\ AsmIdle
    /\ ExtractIdle
    /\ SessIdle /\ ProxyIdle

NextTrim ==
    \/ TrimOnce
    \/ TrimAgain

SpecTrim == InitTrim /\ [][NextTrim]_vars

InitSegment == SegInit /\ SolverIdle /\ RecogIdle /\ ScanIdle /\ TrimIdle /\ AsmIdle
    /\ ExtractIdle
    /\ SessIdle /\ ProxyIdle

NextSegment == SegmentScan

SpecSegment == InitSegment /\ [][NextSegment]_vars

InitAssemble ==
    AsmInit /\ SolverIdle /\ RecogIdle /\ ScanIdle /\ TrimIdle /\ SegIdle
    /\ ExtractIdle
    /\ SessIdle /\ ProxyIdle

NextAssemble == Assemble

SpecAssemble == InitAssemble /\ [][NextAssemble]_vars

InitExtract ==
    ExtractInit /\ SolverIdle /\ RecogIdle /\ ScanIdle /\ TrimIdle /\ SegIdle
    /\ AsmIdle
    /\ SessIdle /\ ProxyIdle

NextExtract ==
    \/ CheckExists
    \/ OpenAndTrim
    \/ SegmentImage
    \/ RecognizePart
    \/ ReturnText

SpecExtract == InitExtract /\ [][NextExtract]_vars

InitParts ==
    PartsInit /\ SolverIdle /\ RecogIdle /\ ScanIdle /\ TrimIdle /\ SegIdle
    /\ AsmIdle
    /\ SessIdle /\ ProxyIdle

NextParts ==
    \/ CheckExists
    \/ OpenAndTrim
    \/ SegmentImage
    \/ CallRecognizer
    \/ RecognizeAngleOfPart
    \/ EngineFault
    \/ RecogReturn
    \/ AppendChar
    \/ ReturnText

SpecParts == InitParts /\ [][NextParts]_vars

InitSessions ==
    SessInit /\ SolverIdle /\ RecogIdle /\ ScanIdle /\ TrimIdle /\ SegIdle
    /\ AsmIdle /\ ExtractIdle /\ ProxyIdle

NextSessions ==
    \E s \in Sessions :
       \/ SessLoopHead(s)
       \/ SessDetecting(s)
       \/ SessScreenshot(s)
       \/ SessRecognizing(s)
       \/ SessRefreshing(s)
       \/ SessEnterText(s)
       \/ SessVerifying(s)

SpecSessions == InitSessions /\ [][NextSessions]_vars

InitProxy ==
    ProxyInit /\ SolverIdle /\ RecogIdle /\ ScanIdle /\ TrimIdle /\ SegIdle
    /\ AsmIdle /\ ExtractIdle /\ SessIdle

NextProxy ==
    \/ get_next_proxy
    \/ get_current_proxy
    \/ reset_proxy_rotation
    \/ Tick

SpecProxy == InitProxy /\ [][NextProxy]_vars

(***************************************************************************)
(* Properties of _solve_captcha.                                           *)
(***************************************************************************)
BodyPcs == {"Detecting", "Screenshot", "Recognizing", "Refreshing",
            "EnterText", "Submit", "Verifying"}

Last(s) == s[Len(s)]

\* C1: for max_attempts = N >= 1 the call starts at most N attempts
\* (Detecting steps), never an (N+1)-th, and terminates; when neither the
\* image nor the text-input field was ever found missing it has made exactly
\* N attempts when it ends and the value returned is False.
C1_RetryBound ==
    /\ [](nDetect <= max_attempts /\ attempt <= max_attempts)
    /\ []((pc = "done" /\ max_attempts >= 1 /\ ~everAbsent)
             => (nDetect = max_attempts /\ result = "False"))
    /\ <>(pc = "done")

C1_Witness ==
    /\ pc = "done"
    /\ max_attempts = MaxAttemptsBound
    /\ ~everAbsent
    /\ nDetect = MaxAttemptsBound
    /\ result = "False"

\* C2: when the image is not found in the first Detecting step the call
\* returns True at once, and the only call made was the lookup of the image:
\* no screenshot, no extract_text, no clear/type, no click, no refresh.
C2_SuccessShortCircuit ==
    (attempt = 1 /\ obs = "timeout")
        => /\ pc = "done"
           /\ result = "True"
           /\ trace = <<"detect">>
           /\ typed = <<>>
           /\ extracted = <<>>
           /\ captcha_text = <<>>

C2_Witness == attempt = 1 /\ obs = "timeout" /\ pc = "done" /\ result = "True"

\* C3: no exception leaves the call: it ends by returning a boolean, and a
\* call that ends on a fault returns False.
C3_NeverRaises ==
    /\ ~raised
    /\ pc = "done" => result \in {"True", "False"}
    /\ (pc = "done" /\ obs \in FaultObs) => result = "False"

C3_Witness ==
    /\ pc = "done"
    /\ obs \in FaultObs
    /\ attempt = max_attempts
    /\ result = "False"
    /\ ~raised

\* C4: a fault in attempt k leaves the attempt number at k; with k <
\* max_attempts the call goes back to the loop head, which starts attempt
\* k+1 in Detecting; with k = max_attempts it returns False.  False is
\* never the value returned while attempts remain.
C4_FaultConsumesOneAttempt ==
    /\ [][(pc \in BodyPcs /\ obs' \in FaultObs)
            => /\ attempt' = attempt
               /\ IF attempt < max_attempts
                    THEN pc' = "loop" /\ result' = "running"
                    ELSE pc' = "done" /\ result' = "False"]_vars
    /\ [][(pc = "loop" /\ attempt < max_attempts)
            => (pc' = "Detecting" /\ attempt' = attempt + 1)]_vars
    /\ [](result = "False" => attempt = max_attempts)

C4_Witness ==
    /\ pc = "loop"
    /\ obs \in FaultObs
    /\ attempt >= 1
    /\ attempt < max_attempts
    /\ result = "running"

\* extract_text() returned in this attempt and the filtered text is empty
RecognizedEmpty ==
    /\ Count("recognize", trace) = 1
    /\ ~(Last(trace) = "recognize" /\ obs = "fault")
    /\ captcha_text = <<>>

\* C5: an attempt whose filtered text is empty and in which no refresh control
\* was found, or which is the last attempt, ends in Exhausted: when the call
\* ends in that attempt the value returned is False, never True.
C5_EmptyTextExhausts ==
    (/\ pc = "done"
     /\ RecognizedEmpty
     /\ (attempt = max_attempts \/ Count("norefresh", trace) > 0))
        => result = "False"

\* C6: the input field is cleared or typed into, and the submit control is
\* clicked, only in an attempt whose filtered captcha text is non-empty.
C6_SubmitOnlyNonEmpty ==
    (\E e \in {"clear", "type", "submit"} : Count(e, trace) > 0)
        => captcha_text # <<>>

\* C7: with an empty filtered text and attempts remaining the controller
\* looks for the refresh control; when it is found it is clicked exactly once
\* and the controller goes back to the loop head, which starts the next
\* attempt in Detecting; nothing is cleared, typed or submitted in that
\* attempt; the refresh control is never clicked in the last attempt.
C7_RefreshOnEmpty ==
    /\ [](Count("refresh", trace) <= 1)
    /\ [](Count("refresh", trace) = 1
            => /\ attempt < max_attempts
               /\ captcha_text = <<>>
               /\ \A e \in {"clear", "type", "submit"} : Count(e, trace) = 0
               /\ typed = <<>>
               /\ pc = "loop")
    /\ [][(pc = "Recognizing" /\ obs' = "text" /\ captcha_text' = <<>>
              /\ attempt < max_attempts)
            => pc' = "Refreshing"]_vars
    /\ [][(pc = "Refreshing" /\ obs' \in {"clicked", "clickfault"})
            => /\ Count("refresh", trace') = 1
               /\ pc' = "loop"
               /\ attempt' = attempt]_vars
    /\ [][(pc = "loop" /\ attempt < max_attempts)
            => (pc' = "Detecting" /\ attempt' = attempt + 1
                  /\ trace' = <<>>)]_vars

C7_Witness ==
    /\ pc = "loop"
    /\ obs = "clicked"
    /\ Count("refresh", trace) = 1
    /\ captcha_text = <<>>
    /\ attempt < max_attempts

\* C8: Verifying is reached only just after the submit click; the field
\* absent gives True at once; the field present sends the controller back to
\* the loop head with the result open, and the loop head starts the next
\* attempt when one remains and returns False when the attempt was the last.
C8_Verifying ==
    /\ [](pc = "Verifying" => (trace # <<>> /\ Last(trace) = "submit"))
    /\ [][(pc = "Verifying" /\ obs' = "absent")
            => (pc' = "done" /\ result' = "True")]_vars
    /\ [][(pc = "Verifying" /\ obs' = "present")
            => (pc' = "loop" /\ result' = "running"
                  /\ attempt' = attempt)]_vars
    /\ [][pc = "loop"
            => IF attempt < max_attempts
                 THEN pc' = "Detecting" /\ attempt' = attempt + 1
                        /\ result' = "running"
                 ELSE pc' = "done" /\ result' = "False"]_vars

C8_Witness ==
    /\ pc = "done"
    /\ result = "False"
    /\ obs = "present"
    /\ Last(trace) = "verify"
    /\ attempt = max_attempts
    /\ max_attempts > 1

(***************************************************************************)
(* Properties of _recognize_with_rotations.                                *)
(***************************************************************************)
\* angles that produced an accepted pair
AccIdx == {i \in DOMAIN accepted : accepted[i].found}

\* angles whose accepted pair has a confidence above -1
WinIdx == {i \in AccIdx : accepted[i].conf > -1}

\* i is the earliest angle with the highest confidence among the angles of S
EarliestHighest(i, S) ==
    /\ i \in S
    /\ \A j \in S : /\ accepted[j].conf <= accepted[i].conf
                    /\ accepted[j].conf = accepted[i].conf => i <= j

C11_FirstAcceptedPair ==
    sc_pc = "scanned"
        => LET ok == {i \in DOMAIN sc_data :
                        /\ strip(sc_data[i].text) # <<>>
                        /\ sc_data[i].conf \in {"-1", "0", "1"}}
           IN IF ok = {}
                THEN sc_out = sc_prior
                ELSE LET i == CHOOSE j \in ok : \A k \in ok : j <= k
                         c == float(sc_data[i].conf)
                     IN /\ sc_out = IF c > sc_prior[2]
                                       THEN <<strip(sc_data[i].text), c>>
                                       ELSE sc_prior
                        /\ \A n \in i..Len(sc_data) :
                              ScanPairs(SubSeq(sc_data, 1, n), 1,
                                        sc_prior[1], sc_prior[2]) = sc_out

C11_Witness ==
    /\ sc_pc = "scanned"
    /\ Len(sc_data) = 2
    /\ strip(sc_data[1].text) # <<>>
    /\ sc_data[1].conf = "x"
    /\ strip(sc_data[2].text) # <<>>
    /\ sc_data[2].conf = "1"
    /\ sc_prior[2] < 1
    /\ sc_out = <<strip(sc_data[2].text), 1>>

(***************************************************************************)
(* Properties of _trim_whitespace.                                         *)
(***************************************************************************)
NonWhiteAt(img, y, x) == img[y + 1][x + 1] # White

HasNonWhite(img) ==
    \E y \in 0..(Height(img) - 1), x \in 0..(Width(img) - 1) :
        NonWhiteAt(img, y, x)

\* the first and the last row and column of img each hold a non-white pixel
NoWhiteBorder(img) ==
    /\ Height(img) > 0
    /\ Width(img) > 0
    /\ \A y \in {0, Height(img) - 1} :
          \E x \in 0..(Width(img) - 1) : NonWhiteAt(img, y, x)
    /\ \A x \in {0, Width(img) - 1} :
          \E y \in 0..(Height(img) - 1) : NonWhiteAt(img, y, x)

\* C17: trimming the image returned by _trim_whitespace returns an image of
\* the same size and pixels; an image whose border rows and columns each
\* hold a non-white pixel is returned with the same size and pixels.
C17_TrimIdempotent ==
    /\ t_pc = "twice" => t_out2 = t_out
    /\ (t_pc \in {"once", "twice"} /\ NoWhiteBorder(t_img)) => t_out = t_img

C17_Witness ==
    /\ t_pc = "twice"
    /\ t_out # t_img
    /\ Height(t_out) < Height(t_img)
    /\ Width(t_out) < Width(t_img)
    /\ t_out2 = t_out

\* C18: for an image with a non-white pixel the image returned is the part
\* of the input inside a box left < right, top < bottom that holds every
\* non-white pixel, and its first and last row and column each hold a
\* non-white pixel (the box is the smallest one); an all-white image is
\* returned unchanged.
C18_SmallestBoundingBox ==
    t_pc \in {"once", "twice"}
        => IF ~HasNonWhite(t_img)
             THEN t_out = t_img
             ELSE \E left \in 0..(Width(t_img) - 1), top \in 0..(Height(t_img) - 1) :
                  \E right \in (left + 1)..Width(t_img),
                     bottom \in (top + 1)..Height(t_img) :
                    /\ Height(t_out) = bottom - top
                    /\ Width(t_out) = right - left
                    /\ \A y \in 0..(bottom - top - 1), x \in 0..(right - left - 1) :
                          t_out[y + 1][x + 1] = t_img[top + y + 1][left + x + 1]
                    /\ \A y \in 0..(Height(t_img) - 1), x \in 0..(Width(t_img) - 1) :
                          NonWhiteAt(t_img, y, x)
                             => (left <= x /\ x < right /\ top <= y /\ y < bottom)
                    /\ NoWhiteBorder(t_out)

C18_Witness ==
    /\ t_pc = "once"
    /\ Height(t_img) = 2
    /\ Width(t_img) = 3
    /\ Height(t_out) = 1
    /\ Width(t_out) = 2
    /\ t_out[1][1] = Yellow
    /\ t_out[1][2] = Black

(***************************************************************************)
(* Properties of _segment_letters_by_projection.                           *)
(***************************************************************************)
\* the maximal runs <<s, e>> of columns s..e-1 with a non-zero ink count
MaximalRuns(vs) ==
    {b \in (0..(Len(vs) - 1)) \X (1..Len(vs)) :
        /\ b[1] < b[2]
        /\ \A x \in b[1]..(b[2] - 1) : vs[x + 1] > 0
        /\ b[1] = 0 \/ vs[b[1]] = 0
        /\ b[2] = Len(vs) \/ vs[b[2] + 1] = 0}

BoxSet(boxes) == {boxes[i] : i \in DOMAIN boxes}

\* C14: every part emitted is at least 5 columns wide, and a run of ink
\* columns narrower than 5, inside the image or touching its right edge, is
\* not emitted.
C14_NoNarrowPart ==
    g_pc = "done"
        => /\ \A i \in DOMAIN g_boxes : g_boxes[i][2] - g_boxes[i][1] >= 5
           /\ \A b \in MaximalRuns(g_vsum) :
                 b[2] - b[1] < 5 => b \notin BoxSet(g_boxes)

C14_Witness ==
    /\ g_pc = "done"
    /\ <<1, 3>> \in MaximalRuns(g_vsum)
    /\ \E b \in MaximalRuns(g_vsum) :
          b[2] = Len(g_vsum) /\ b[2] - b[1] = 4 /\ b[1] > 3
    /\ g_boxes = <<>>

\* C15: the parts are exactly the maximal runs of ink columns of width >= 5,
\* from first ink column to first zero column after it (or the right edge),
\* in left-to-right order: pairwise disjoint, midpoints strictly increasing;
\* three such runs give exactly three parts.
C15_PartsAreWideRuns ==
    g_pc = "done"
        => LET wide == {b \in MaximalRuns(g_vsum) : b[2] - b[1] >= 5}
           IN /\ Len(g_boxes) = Cardinality(wide)
              /\ BoxSet(g_boxes) = wide
              /\ \A i, j \in DOMAIN g_boxes :
                    i < j => /\ g_boxes[i][2] <= g_boxes[j][1]
                             /\ g_boxes[i][1] + g_boxes[i][2]
                                   < g_boxes[j][1] + g_boxes[j][2]

C15_Witness ==
    /\ g_pc = "done"
    /\ Len(g_boxes) = 3
    /\ g_boxes[3][2] = Len(g_vsum)
    /\ Cardinality(MaximalRuns(g_vsum)) = 3

(***************************************************************************)
(* Properties of the assembling expression.                                *)
(***************************************************************************)
RECURSIVE TotalLen(_, _)
TotalLen(texts, n) ==
    IF n = 0 THEN 0 ELSE TotalLen(texts, n - 1) + Len(texts[n])

\* the characters of the texts in list order, by position
InOrder(texts) ==
    [k \in 1..TotalLen(texts, Len(texts)) |->
        LET i == CHOOSE j \in DOMAIN texts :
                    /\ TotalLen(texts, j - 1) < k
                    /\ k <= TotalLen(texts, j)
        IN texts[i][k - TotalLen(texts, i - 1)]]

\* C16: the string returned is the characters of the per-segment strings in
\* segment order, with every space removed and with leading and trailing
\* whitespace cut off; it holds no space; no strings give the empty
\* string, and <<"A", "", "B", " ">> gives "AB".
C16_Assembler ==
    a_pc = "done"
        => LET kept == SelectSeq(InOrder(a_parts), NotSpace)
           IN /\ \A k \in DOMAIN a_out : a_out[k] # " "
              /\ a_out # <<>>
                    => (a_out[1] \notin {" ", "\n"}
                          /\ a_out[Len(a_out)] \notin {" ", "\n"})
              /\ \E i \in 1..(Len(kept) + 1), j \in 0..Len(kept) :
                    /\ a_out = SubSeq(kept, i, j)
                    /\ \A k \in 1..(i - 1) : kept[k] \in {" ", "\n"}
                    /\ \A k \in (j + 1)..Len(kept) : kept[k] \in {" ", "\n"}
              /\ a_parts = <<>> => a_out = <<>>
              /\ a_parts = <<<<"A">>, <<>>, <<"B">>, <<" ">>>>
                    => a_out = <<"A", "B">>

C16_Witness ==
    /\ a_pc = "done"
    /\ a_parts = <<<<"A">>, <<>>, <<"B">>, <<" ">>>>
    /\ a_out = <<"A", "B">>

(***************************************************************************)
(* Properties of extract_text.                                             *)
(***************************************************************************)
\* C12: no exception raised by trimming, segmentation, rotation or the
\* recognition engine leaves extract_text: a call in which one was raised
\* ends by returning the empty string.
C12_NoFaultEscapes ==
    /\ ~e_raised
    /\ (e_pc = "done" /\ e_fault # "none") => e_result = <<>>

AllWhite(img) ==
    \A y \in 1..Height(img), x \in 1..Width(img) : img[y][x] = White

\* C13: for an all-white image the trimmer returns the image unchanged, the
\* segmenter returns no part, the recognizer is never called, and the call
\* returns the empty string without raising.
C13_AllWhiteImage ==
    (e_file = "image" /\ AllWhite(e_stored))
        => /\ ~e_raised
           /\ e_fault = "none"
           /\ Count("trim", e_trace) > 0 => e_image = e_stored
           /\ Count("segment", e_trace) > 0 => e_parts = <<>>
           /\ Count("recognize", e_trace) = 0
           /\ e_pc = "done" => e_result = <<>>

C13_Witness ==
    /\ e_pc = "done"
    /\ e_file = "image"
    /\ AllWhite(e_stored)
    /\ Height(e_stored) = 2
    /\ Width(e_stored) > MinPartWidth
    /\ e_trace = <<"exists", "open", "trim", "segment">>
    /\ e_result = <<>>

\* C19: when the file does not exist or cannot be opened or decoded, the
\* call returns the empty string, raises nothing, and neither segments nor
\* calls the recognizer.
C19_AcquisitionFault ==
    e_file \in {"missing", "unreadable"}
        => /\ ~e_raised
           /\ e_pc \in {"exists", "open", "done"}
           /\ e_pc = "done" => e_result = <<>>
           /\ \A e \in {"trim", "segment", "recognize"} : Count(e, e_trace) = 0
           /\ e_parts = <<>>

C19_Witness ==
    /\ e_pc = "done"
    /\ e_file = "unreadable"
    /\ e_fault = "open"
    /\ e_trace = <<"exists", "open">>
    /\ e_result = <<>>
    /\ ~e_raised

(***************************************************************************)
(* Order of the calls of one attempt of _solve_captcha.                    *)
(***************************************************************************)
AttemptOrder ==
    <<"detect", "screenshot", "recognize", "clear", "type", "submit", "verify">>

IsPrefix(p, q) == Len(p) <= Len(q) /\ \A i \in DOMAIN p : p[i] = q[i]

NotRefreshStep(e) == e \notin {"refresh", "norefresh"}

\* positions of the alphanumeric characters of the text extract_text returned
AlnumPositions == {i \in DOMAIN extracted : extracted[i] \in {"A", "7"}}

\* C20: the calls of one attempt come in the order detect, screenshot,
\* recognize, clear, type, submit, verify (the refresh lookup aside), so the
\* field is checked only after the submit click of the same attempt; the
\* text typed is the text recognized in that attempt with only its
\* alphanumeric characters kept, in their order.
C20_AttemptOrder ==
    /\ IsPrefix(SelectSeq(trace, NotRefreshStep), AttemptOrder)
    /\ \A i \in DOMAIN trace :
          trace[i] \in {"refresh", "norefresh"}
             => (i > 1 /\ trace[i - 1] = "recognize")
    /\ Count("verify", trace) > 0 => Count("submit", trace) = 1
    /\ typed # <<>>
          => /\ Count("recognize", trace) = 1
             /\ Len(typed[1]) = Cardinality(AlnumPositions)
             /\ \A i \in AlnumPositions :
                   typed[1][Cardinality({j \in AlnumPositions : j <= i})]
                      = extracted[i]

C20_Witness ==
    /\ pc = "done"
    /\ result = "True"
    /\ trace = AttemptOrder
    /\ Len(extracted) = 2
    /\ extracted[1] = "-"
    /\ typed = <<<<extracted[2]>>>>
    /\ attempt > 1

(***************************************************************************)
(* Properties of the recognizer calls.                                     *)
(***************************************************************************)
\* the part the running (or last) recognizer call was made for
CurrentPart == e_calls[Len(e_calls)].part

\* C21: in every call of _recognize_with_rotations the engine is invoked in
\* the order -30, -15, +15, +30, the i-th time on the part of the call turned
\* by the i-th angle alone, the parameter image staying the part as it was
\* given; a call that returns has invoked the engine once per angle, whatever
\* was detected; and extract_text calls the recognizer on the parts in list
\* order, one call per part, the next call starting after the value of the
\* previous one was appended, every part having been handed over when
\* extract_text returns.
C21_CallOrder ==
    /\ angles = <<-30, -15, 15, 30>>
    /\ Len(r_calls) <= Len(angles)
    /\ Len(e_calls) <= Len(e_parts)
    /\ \A i \in DOMAIN e_calls : e_calls[i] = [idx |-> i - 1, part |-> e_parts[i]]
    /\ e_pc = "recognizing" =>
          /\ r_image = Unrotated(CurrentPart)
          /\ Len(extracted_text) = Len(e_calls) - 1
          /\ \A i \in DOMAIN r_calls :
                r_calls[i] = [ang |-> angles[i],
                              arg |-> [img |-> CurrentPart, rot |-> angles[i]]]
          /\ r_pc = "done" => Len(r_calls) = Len(angles)
    /\ e_pc = "loop" => Len(extracted_text) = Len(e_calls)
    /\ (e_pc = "done" /\ ~e_raised) =>
          /\ Len(e_calls) = Len(e_parts)
          /\ Len(extracted_text) = Len(e_parts)

\* the second part's call has returned after four engine invocations although
\* its first angle already gave a character
C21_Witness ==
    /\ e_pc = "recognizing"
    /\ r_pc = "done"
    /\ Len(e_calls) = 2
    /\ Len(r_calls) = Len(angles)
    /\ r_result # <<>>
    /\ CurrentPart # e_parts[1]

(***************************************************************************)
(* Soundness of the success result of _solve_captcha.                      *)
(***************************************************************************)
\* C22: _solve_captcha has returned True only when the last thing its
\* returning attempt did was the Detecting wait that found no image, or the
\* Verifying lookup that found no text-input field just after the submit
\* click; never with an exception as the last answer, never in an attempt
\* whose refresh button was clicked, and never when the field was still
\* present at the end of the last attempt.
C22_SuccessSound ==
    /\ result = "True" =>
          /\ pc = "done"
          /\ obs \notin FaultObs \cup {"fault", "present"}
          /\ Count("refresh", trace) = 0
          /\ \/ obs = "timeout" /\ trace = <<"detect">>
             \/ /\ obs = "absent"
                /\ Len(trace) >= 2
                /\ trace[Len(trace)] = "verify"
                /\ trace[Len(trace) - 1] = "submit"
    /\ (pc = "done" /\ obs \in FaultObs \cup {"fault", "present", "clicked"})
          => result = "False"

\* True in the last attempt, after the submit click, with earlier attempts
\* behind
C22_Witness ==
    /\ result = "True"
    /\ obs = "absent"
    /\ attempt = max_attempts
    /\ attempt > 1
    /\ Count("submit", trace) = 1

(***************************************************************************)
(* Properties of concurrent solve sessions.                                *)
(***************************************************************************)
\* C23: whatever the interleaving of two sessions, the picture a session's
\* recognizer opened in attempt k, and the picture whose text the session
\* typed in attempt k, is the picture that session captured in attempt k.
C23_SessionIsolation ==
    \A s \in Sessions :
       /\ ss_read[s] # NoPicture => ss_read[s] = Picture(s, ss_attempt[s])
       /\ ss_typed[s] # NoPicture => ss_typed[s] = Picture(s, ss_attempt[s])

(***************************************************************************)
(* Properties of ProxyManager.                                             *)
(***************************************************************************)
\* C24: after any sequence of calls on any loaded list, repeated entries
\* included, no proxy is both used and available; a proxy chosen by
\* get_next_proxy was not in used_proxies when it was chosen; get_next_proxy
\* resets the rotation only when it finds available_proxies empty; and None
\* is returned by get_next_proxy or get_current_proxy only when the proxy
\* list is empty.
C24_Rotation ==
    /\ used_proxies \cap Range(available_proxies) = {}
    /\ (px_op = "get_next_proxy" /\ px_ret # NoneProxy) => px_ret \notin px_used
    /\ (px_op = "get_next_proxy" /\ px_reset) => px_avail = <<>>
    /\ (px_op \in {"get_next_proxy", "get_current_proxy"} /\ px_ret = NoneProxy)
          => proxies = <<>>
====
